---- MODULE Spec2Model ----
(***************************************************************************)
(* Model of the coral-qaaas workflow orchestrator                          *)
(* (supabase/functions/test-run-orchestrator/index.ts).                    *)
(*                                                                         *)
(* The record store (tables agents, test_runs, test_results) is the shared *)
(* state.  A sweep is one invocation of the orchestrator's serve handler;  *)
(* every awaited record-store call of the handler and of                   *)
(* startAgentWorkflow is one atomic action.  A record-store call either    *)
(* is applied ("ok"), returns {error} without being applied ("error"), or  *)
(* rejects/throws without being applied ("throw").                         *)
(*                                                                         *)
(* The data that flows through the steps (step implementations, the two    *)
(* wrappers executeAgentStep and executeAgentWorkflow, the workflow        *)
(* context) is followed for one startAgentWorkflow call in exec, under     *)
(* SpecExecutor; aggregateResults alone is applied to bounded contexts     *)
(* under SpecAggregate.                                                    *)
(***************************************************************************)
EXTENDS Integers, Sequences, FiniteSets, TLC

(* ---------------------------- bounds ----------------------------------- *)
\* number of test runs the operator creates in one behaviour
MaxRuns == 2
\* number of record-store calls that fail in one behaviour
MaxFaults == 2
\* largest count (failed tests, vulnerabilities, bugs) a tool reports
MaxCount == 6

(* ------------------------ program constants ---------------------------- *)
workflowSequence ==
    << "repoClonerAgent", "fuzzAgent", "unitTestAgent", "integrationAgent",
       "mistralBugReasoningAgent", "securityAgent", "aggregatorAgent",
       "blockchainLogger", "voiceQAagent" >>

\* total_agents written when a run is marked running
TotalAgents == 9

SweepIds == {1}

VARIABLES
    agents,        \* table agents: sequence (creation order) of agent rows
    test_runs,     \* table test_runs: sequence (creation order) of run rows
    test_results,  \* table test_results: sequence (insertion order) of rows
    sweep,         \* per invocation of the orchestrator: its local variables
    faults,        \* number of record-store calls that have failed so far
    hist,          \* history, per run: what the sweep that picked it up did
    exec,          \* the in-memory side of one startAgentWorkflow call
    repositories,         \* table repositories: sequence of rows
    agent_registrations,  \* table agent_registrations: sequence of rows
    trigger,       \* one invocation of agent-workflow-trigger
    clear,         \* one invocation of clear-test-results
    registration,  \* the invocations of coral-agent-registration
    deletion       \* one delete from the Agents and the Repositories page

vars == << agents, test_runs, test_results, sweep, faults, hist, exec,
           repositories, agent_registrations, trigger, clear, registration,
           deletion >>

\* the tables and handlers the orchestrator never touches
entrypoints ==
    << repositories, agent_registrations, trigger, clear, registration,
       deletion >>

(* ------------------------------ helpers -------------------------------- *)
Range(f) == { f[x] : x \in DOMAIN f }

RECURSIVE Ascending(_)
\* the elements of a finite set of integers as an ascending sequence
Ascending(S) ==
    IF S = {} THEN << >>
    ELSE LET m == CHOOSE x \in S : \A y \in S : x <= y
         IN  << m >> \o Ascending(S \ {m})

\* an agent row; coral_agent_id = 0 stands for NULL
Agent(type, status, coral) ==
    [type |-> type, status |-> status, coral_agent_id |-> coral]

\* rows of table agents: one active, registered agent per step type
FullRoster == [n \in 1..9 |-> Agent(workflowSequence[n], "active", n)]

\* rows of table agents: only a cloner and an aggregator, not yet registered
ClonerAggregatorRoster ==
    << Agent("repoClonerAgent", "active", 0),
       Agent("aggregatorAgent", "active", 0) >>

\* the rows the operator may have put into table agents
AgentTables ==
    { ClonerAggregatorRoster,
      \* registered and unregistered agents, some of them not active
      << Agent("repoClonerAgent", "active", 1),
         Agent("fuzzAgent", "maintenance", 2),
         Agent("securityAgent", "active", 0),
         Agent("aggregatorAgent", "active", 4),
         Agent("blockchainLogger", "inactive", 0),
         Agent("voiceQAagent", "active", 6) >>,
      \* no agent at all
      << >> }

\* outcomes a record-store call can have in the current state
Outcomes == IF faults < MaxFaults THEN {"ok", "error", "throw"} ELSE {"ok"}

Fault(o) == IF o = "ok" THEN faults ELSE faults + 1

\* local variables of an invocation that is not running
IdleSweep ==
    [ pc          |-> "idle",
      queuedRuns  |-> << >>,
      agents      |-> << >>,
      k           |-> 0,
      i           |-> 0,
      testResult  |-> 0,
      workflowData |-> {},
      results     |-> << >>,
      response    |-> "none",
      \* history: a transition-to-running update of this invocation failed;
      \* number of runs in the store when this invocation read the queue;
      \* how the previous invocation ended, and its number of runs
      dirty       |-> FALSE,
      len         |-> 0,
      prev        |-> "none",
      prevLen     |-> 0 ]

\* history of a run no sweep has picked up
NoHist ==
    [ phase     |-> "none",   \* none, skipped, driving, finished, caught
      matched   |-> {},       \* 0-based steps with an agent in the roster
      attempted |-> {},       \* 0-based steps whose insert was issued
      runFault  |-> FALSE ]   \* a run-level store call of the handler failed

\* id of the run the for loop of the handler is at
testRun(s) == sweep[s].queuedRuns[sweep[s].k]

(* --------------------------- record store ------------------------------ *)
\* a queue query without the status filter
SelectAllRuns == Ascending(DOMAIN test_runs)

\* a queue query that also retries failed runs
SelectQueuedOrFailedRuns ==
    Ascending({ r \in DOMAIN test_runs :
                  test_runs[r].status \in {"queued", "failed"} })

\* a queue query that honours the test_run_id of the trigger's request
SelectRequestedRun ==
    Ascending({ r \in DOMAIN test_runs :
                  /\ test_runs[r].status = "queued"
                  /\ r = trigger.test_run_id })

\* .from('test_runs').select(...).eq('status','queued').order('created_at')
SelectQueuedRuns ==
    Ascending({ r \in DOMAIN test_runs : test_runs[r].status = "queued" })

\* .update(...).eq('id', id): the row with that id, if the table has one,
\* is replaced by row
UpdateRow(table, id, row) ==
    [n \in DOMAIN table |-> IF n = id THEN row ELSE table[n]]

\* a row of table agents as the handler holds it after a select('*')
AgentRow(a) == [id |-> a, type |-> agents[a].type]

\* .from('agents').eq('status','active').not('coral_agent_id','is',null)
SelectRegisteredAgents ==
    LET ids == Ascending({ a \in DOMAIN agents :
                             /\ agents[a].status = "active"
                             /\ agents[a].coral_agent_id # 0 })
    IN  [n \in 1..Len(ids) |-> AgentRow(ids[n])]

\* .from('agents').eq('status','active')
SelectActiveAgents ==
    LET ids == Ascending({ a \in DOMAIN agents : agents[a].status = "active" })
    IN  [n \in 1..Len(ids) |-> AgentRow(ids[n])]

\* a new row of test_runs as handleCreateTestRun inserts it
NewRun ==
    [ repository_id |-> 1, status |-> "queued", total_agents |-> 9,
      completed_agents |-> 0, started_at |-> FALSE, completed_at |-> FALSE ]

(* ------------------------- startAgentWorkflow -------------------------- *)
\* a lookup that takes the first agent of the roster whatever its type
findFirst(roster, agentType) ==
    IF Len(roster) = 0 THEN 0 ELSE roster[1].id

\* agents.find(a => a.type === agentType): id of the first match, 0 if none
find(roster, agentType) ==
    LET hits == { n \in DOMAIN roster : roster[n].type = agentType }
    IN  IF hits = {} THEN 0
        ELSE roster[CHOOSE n \in hits : \A m \in hits : n <= m].id

RECURSIVE SkipUnmatched(_, _)
\* the first 0-based index >= i of the sequence whose type has an agent in
\* the roster (the loop's `continue` on !agent); Len(workflowSequence) if none
SkipUnmatched(roster, i) ==
    IF i >= Len(workflowSequence) THEN Len(workflowSequence)
    ELSE IF find(roster, workflowSequence[i + 1]) # 0 THEN i
         ELSE SkipUnmatched(roster, i + 1)

\* the 0-based steps of the sequence that have an agent in the roster
MatchedSteps(roster) ==
    { i \in 0..(Len(workflowSequence) - 1) :
        find(roster, workflowSequence[i + 1]) # 0 }

\* the for loop of startAgentWorkflow arrives at index j
EnterStep(sw, j) ==
    LET i == SkipUnmatched(sw.agents, j)
    IN  IF i < Len(workflowSequence)
        THEN [sw EXCEPT !.i = i, !.testResult = 0, !.pc = "insertResult"]
        ELSE [sw EXCEPT !.i = i, !.testResult = 0, !.pc = "markCompleted"]

\* a progress counter that counts the steps still to go
ProgressRemaining(i) == Len(workflowSequence) - i

\* a progress counter that writes the 0-based index itself
ProgressZeroBased(i) == i

\* value written to completed_agents after the step at 0-based index i
Progress(i) == i + 1

(* ------------------------ step implementations ------------------------ *)
StepKeys == Range(workflowSequence)

\* the object {}; also the value of a property that is not there
EmptyObj == [empty |-> TRUE]

\* the value of a numeric property that is not there
undefined == -1

\* obj.f for a numeric property f
Num(obj, f) == IF f \in DOMAIN obj THEN obj[f] ELSE undefined

\* x || 0
OrZero(x) == IF x = undefined THEN 0 ELSE x

Min(a, b) == IF a <= b THEN a ELSE b

Max(a, b) == IF a >= b THEN a ELSE b

\* let workflowData = { ..., results: {} }
NoContext == [results |-> [k \in StepKeys |-> EmptyObj]]

\* what the environment of a step implementation decides: whether git clone
\* succeeds, whether the API key of the step is configured, and the count
\* the step's tool reports
Inputs == [cloned : BOOLEAN, apiKey : BOOLEAN, n : 0..MaxCount]

\* workflowData.results?.repoClonerAgent?.clone_path
ClonePath(workflowData) ==
    Num(workflowData.results["repoClonerAgent"], "clone_path")

cloneRepository(in) ==
    IF in.cloned
    THEN [status |-> "success", clone_path |-> 1]
    ELSE [status |-> "failed", error |-> "Git clone failed"]

runFuzzTesting(workflowData, in) ==
    IF ClonePath(workflowData) = undefined
    THEN [status |-> "failed", error |-> "Repository not cloned",
          vulnerabilities_found |-> 0]
    ELSE [status |-> "completed", vulnerabilities_found |-> in.n]

runUnitTests(workflowData, in) ==
    IF ClonePath(workflowData) = undefined
    THEN [status |-> "failed", error |-> "Repository not cloned",
          tests_run |-> 0, tests_passed |-> 0, tests_failed |-> 0,
          coverage_percentage |-> 0]
    ELSE [status |-> "completed",
          tests_run |-> in.n + 1, tests_passed |-> 1, tests_failed |-> in.n,
          coverage_percentage |-> 50]

runIntegrationTests(workflowData, in) ==
    IF ClonePath(workflowData) = undefined
    THEN [status |-> "failed", error |-> "Repository not cloned",
          integration_tests_run |-> 0]
    ELSE [status |-> "completed", integration_tests_run |-> in.n]

analyzeBugsWithAI(workflowData, in) ==
    IF ~in.apiKey
    THEN [status |-> "failed", error |-> "Mistral API key not configured",
          bugs_analyzed |-> 0, severity_high |-> 0,
          severity_medium |-> 0, severity_low |-> 0]
    ELSE [status |-> "completed",
          bugs_analyzed |-> in.n, severity_high |-> in.n,
          severity_medium |-> 0, severity_low |-> 0]

runSecurityScan(workflowData, in) ==
    IF ClonePath(workflowData) = undefined
    THEN [status |-> "failed", error |-> "Repository not cloned",
          vulnerabilities_found |-> 0, security_score |-> 0]
    ELSE [status |-> "completed",
          vulnerabilities_found |-> in.n, security_score |-> 100 - in.n]

\* an aggregation that reports a failure when there is no unit-test payload
aggregateResultsNoDefault(workflowData) ==
    IF workflowData.results["unitTestAgent"] = EmptyObj
    THEN [status |-> "failed", error |-> "Cannot read properties of undefined"]
    ELSE [status |-> "completed", overall_score |-> 100,
          test_summary |->
            [ total_tests  |-> 0, tests_passed |-> 0,
              tests_failed |-> 0, coverage     |-> 0 ]]

\* an aggregation whose penalties have no cap and whose score has no floor
aggregateResultsUncapped(workflowData) ==
    LET results   == workflowData.results
        failed    == OrZero(Num(results["unitTestAgent"], "tests_failed"))
        vulns     == OrZero(Num(results["securityAgent"],
                                "vulnerabilities_found"))
        high      == OrZero(Num(results["mistralBugReasoningAgent"],
                                "severity_high"))
    IN  [ status |-> "completed",
          overall_score |-> 100 - failed * 5 - vulns * 10 - high * 15,
          test_summary |->
            [ total_tests  |-> 0, tests_passed |-> 0,
              tests_failed |-> failed, coverage |-> 0 ] ]

\* an aggregation whose penalty for vulnerabilities is capped at 50
aggregateResultsCap50(workflowData) ==
    LET results   == workflowData.results
        failed    == OrZero(Num(results["unitTestAgent"], "tests_failed"))
        vulns     == OrZero(Num(results["securityAgent"],
                                "vulnerabilities_found"))
        high      == OrZero(Num(results["mistralBugReasoningAgent"],
                                "severity_high"))
    IN  [ status |-> "completed",
          overall_score |-> Max(0, 100 - Min(30, failed * 5)
                                       - Min(50, vulns * 10)
                                       - Min(20, high * 15)),
          test_summary |->
            [ total_tests  |-> 0, tests_passed |-> 0,
              tests_failed |-> failed, coverage |-> 0 ] ]

\* aggregateResults (lines 646-696)
aggregateResults(workflowData) ==
    LET results   == workflowData.results
        unitTests == results["unitTestAgent"]
        security  == results["securityAgent"]
        bugs      == results["mistralBugReasoningAgent"]
        afterTests ==
            IF Num(unitTests, "tests_failed") > 0
            THEN 100 - Min(30, Num(unitTests, "tests_failed") * 5)
            ELSE 100
        afterSecurity ==
            IF Num(security, "vulnerabilities_found") > 0
            THEN afterTests
                   - Min(25, Num(security, "vulnerabilities_found") * 10)
            ELSE afterTests
        afterBugs ==
            IF Num(bugs, "severity_high") > 0
            THEN afterSecurity - Min(20, Num(bugs, "severity_high") * 15)
            ELSE afterSecurity
        overallScore == Max(0, afterBugs)
    IN  [ status |-> "completed",
          overall_score |-> overallScore,
          test_summary |->
            [ total_tests  |-> OrZero(Num(unitTests, "tests_run")),
              tests_passed |-> OrZero(Num(unitTests, "tests_passed")),
              tests_failed |-> OrZero(Num(unitTests, "tests_failed")),
              coverage     |-> OrZero(Num(unitTests, "coverage_percentage")) ],
          security_summary |->
            [ vulnerabilities |->
                OrZero(Num(security, "vulnerabilities_found")),
              security_score |-> OrZero(Num(security, "security_score")) ],
          bug_summary |->
            [ total_bugs    |-> OrZero(Num(bugs, "bugs_analyzed")),
              high_severity |-> OrZero(Num(bugs, "severity_high")) ] ]

logToBlockchain(workflowData) ==
    [status |-> "completed", blockchain_logged |-> TRUE]

generateVoiceSummary(workflowData, in) ==
    IF ~in.apiKey
    THEN [status |-> "failed", error |-> "ElevenLabs API key not configured",
          voice_summary_generated |-> FALSE]
    ELSE [status |-> "completed", voice_summary_generated |-> TRUE]

\* the switch of executeAgentWorkflow (lines 307-346): the payload the
\* implementation of the step returns
Implementation(type, workflowData, in) ==
    CASE type = "repoClonerAgent"          -> cloneRepository(in)
      [] type = "fuzzAgent"                -> runFuzzTesting(workflowData, in)
      [] type = "unitTestAgent"            -> runUnitTests(workflowData, in)
      [] type = "integrationAgent"         -> runIntegrationTests(workflowData, in)
      [] type = "mistralBugReasoningAgent" -> analyzeBugsWithAI(workflowData, in)
      [] type = "securityAgent"            -> runSecurityScan(workflowData, in)
      [] type = "aggregatorAgent"          -> aggregateResults(workflowData)
      [] type = "blockchainLogger"         -> logToBlockchain(workflowData)
      [] type = "voiceQAagent"             -> generateVoiceSummary(workflowData, in)

\* executeAgentWorkflow: every implementation catches its own failures and
\* returns a payload (with status 'failed' and an error), so the try block
\* completes and the payload is wrapped with success: true
executeAgentWorkflow(type, workflowData, in) ==
    [ success |-> TRUE,
      logs    |-> "executed successfully",
      data    |-> Implementation(type, workflowData, in) ]

\* executeAgentStep: executeAgentWorkflow returns a value in every case, so
\* the try block of executeAgentStep completes and wraps that value, again
\* with success: true
executeAgentStep(type, workflowData, in) ==
    [ success |-> TRUE,
      logs    |-> "executed successfully",
      data    |-> executeAgentWorkflow(type, workflowData, in) ]

(* --------------------------- serve handler ----------------------------- *)
\* the for loop over queuedRuns moves on (or the handler responds)
NextRun(sw) ==
    IF sw.k < Len(sw.queuedRuns)
    THEN [sw EXCEPT !.k = @ + 1, !.pc = "markRunning", !.i = 0,
                    !.testResult = 0, !.workflowData = {}]
    ELSE [sw EXCEPT !.pc = "returned", !.response = "ok", !.i = 0,
                    !.testResult = 0, !.workflowData = {}]

\* the outer catch: 500 response carrying only the error message
Respond500(sw) ==
    [sw EXCEPT !.pc = "returned", !.response = "error", !.results = << >>,
               !.i = 0, !.testResult = 0, !.workflowData = {}]

\* results.push(...)
Push(sw, run, status) ==
    [sw EXCEPT !.results = Append(@, [test_run_id |-> run, status |-> status])]

\* no startAgentWorkflow call is followed step by step
IdleExec ==
    [ pc           |-> "idle",
      agents       |-> << >>,
      i            |-> 0,
      workflowData |-> NoContext,
      \* status written to the test result of each step ("none": no write)
      written      |-> [k \in StepKeys |-> "none"],
      \* history: the payload the implementation of each step returned
      payloads     |-> [k \in StepKeys |-> EmptyObj],
      \* value returned by a direct call of aggregateResults
      out          |-> EmptyObj ]

(* ------------------- the other entrypoints at rest --------------------- *)
\* agent-workflow-trigger has not been called
IdleTrigger ==
    [ pc          |-> "idle",     \* idle, invoked, done
      test_run_id |-> 0,          \* 0: the body has no test_run_id
      response    |-> [status |-> 0, body |-> [none |-> TRUE]],
      \* history: the two tables when the request came
      runsBefore    |-> << >>,
      resultsBefore |-> << >> ]

\* clear-test-results has not been called
IdleClear ==
    [ pc       |-> "idle",        \* idle, deleteRuns, done
      response |-> [status |-> 0, body |-> [none |-> TRUE]] ]

\* coral-agent-registration has not been called
IdleRegistration ==
    [ pc       |-> "idle",  \* idle, register, update, insert, returned
      call     |-> 0,       \* number of the invocation
      agents   |-> << >>,   \* ids of the pending agents the handler selected
      k        |-> 0,       \* position of the for loop in agents
      coralAgentId |-> 0,
      registrationResults |-> << >>,
      response |-> [status |-> 0, body |-> [none |-> TRUE]],
      \* history: agents an earlier invocation reported as registered;
      \* agents this invocation sent to the coordination service; number of
      \* registration records of the current agent when its turn began
      reported  |-> {},
      contacted |-> {},
      before    |-> 0 ]

\* handleDeleteAgent has not been called
IdleDeletion ==
    [ pc |-> "idle", id |-> 0, toast |-> "none",
      \* history: the referencing rows when the delete was issued
      hadResults |-> FALSE, hadRegistrations |-> FALSE,
      \* one handleDeleteRepository call of the Repositories page
      repository |-> [pc |-> "idle", id |-> 0, toast |-> "none"] ]

\* a row of table repositories
Repository == [name |-> "repo", branch |-> "main"]

InitEntrypoints ==
    /\ repositories = << Repository >>
    /\ agent_registrations = << >>
    /\ trigger = IdleTrigger
    /\ clear = IdleClear
    /\ registration = IdleRegistration
    /\ deletion = IdleDeletion

(* ------------------------------ Init ----------------------------------- *)
InitStore ==
    /\ InitEntrypoints
    /\ test_runs = << >>
    /\ test_results = << >>
    /\ sweep = [s \in SweepIds |-> IdleSweep]
    /\ faults = 0
    /\ hist = << >>
    /\ exec = IdleExec

Init ==
    /\ agents \in AgentTables
    /\ InitStore

\* the roster has an agent for every step of the sequence
InitFullRoster ==
    /\ agents = FullRoster
    /\ InitStore

(* ------------------------------ operator ------------------------------- *)
\* handleCreateTestRun: insert a queued run
CreateRun ==
    /\ Len(test_runs) < MaxRuns
    /\ test_runs' = Append(test_runs, NewRun)
    /\ hist' = Append(hist, NoHist)
    /\ UNCHANGED << entrypoints, exec, agents, test_results, sweep, faults >>

(* ------------------- serve handler: discovery queries ------------------ *)
\* a new invocation: select the queued runs (lines 23-41)
FetchQueuedRuns(s) ==
    /\ sweep[s].pc \in {"idle", "returned"}
    /\ \E o \in Outcomes :
         /\ faults' = Fault(o)
         /\ sweep' = [sweep EXCEPT ![s] =
              LET new == [IdleSweep EXCEPT
                            !.len = Len(test_runs),
                            !.prevLen = sweep[s].len,
                            !.prev = IF sweep[s].pc = "idle" THEN "none"
                                     ELSE IF /\ sweep[s].response = "ok"
                                             /\ ~sweep[s].dirty
                                          THEN "clean" ELSE "other"]
              IN  IF o = "ok"
                  THEN [new EXCEPT !.pc = "fetchRegistered",
                                   !.queuedRuns = SelectQueuedRuns]
                  ELSE Respond500(new)]
    /\ UNCHANGED << entrypoints, exec, agents, test_runs, test_results, hist >>

\* select the registered active agents (lines 46-58); a returned error is
\* only logged and leaves the roster empty
FetchRegisteredAgents(s) ==
    /\ sweep[s].pc = "fetchRegistered"
    /\ \E o \in Outcomes :
         /\ faults' = Fault(o)
         /\ sweep' = [sweep EXCEPT ![s] =
              IF o = "throw" THEN Respond500(@)
              ELSE LET roster == IF o = "ok" THEN SelectRegisteredAgents
                                 ELSE << >>
                   IN  IF Len(roster) = 0
                       THEN [@ EXCEPT !.pc = "fetchUnregistered"]
                       ELSE NextRun([@ EXCEPT !.agents = roster])]
    /\ UNCHANGED << entrypoints, exec, agents, test_runs, test_results, hist >>

\* fallback: select all active agents (lines 61-76)
FetchUnregisteredAgents(s) ==
    /\ sweep[s].pc = "fetchUnregistered"
    /\ \E o \in Outcomes :
         /\ faults' = Fault(o)
         /\ sweep' = [sweep EXCEPT ![s] =
              IF o = "ok" THEN NextRun([@ EXCEPT !.agents = SelectActiveAgents])
              ELSE Respond500(@)]
    /\ UNCHANGED << entrypoints, exec, agents, test_runs, test_results, hist >>

(* --------------------- serve handler: run loop ------------------------- *)
\* a handler that forgets the `continue` after a failed update to running
AfterMarkRunningNoContinue(sw, o) ==
    CASE o = "ok"    -> EnterStep(sw, 0)
      [] o = "error" -> EnterStep([sw EXCEPT !.dirty = TRUE], 0)
      [] o = "throw" -> [sw EXCEPT !.pc = "catchRun", !.dirty = TRUE]

\* a handler that leaves the loop (`break`) after a failed update to running
AfterMarkRunningBreak(sw, o) ==
    CASE o = "ok"    -> EnterStep(sw, 0)
      [] o = "error" -> [sw EXCEPT !.pc = "returned", !.response = "ok",
                                   !.dirty = TRUE]
      [] o = "throw" -> [sw EXCEPT !.pc = "catchRun", !.dirty = TRUE]

\* what the handler does after the update to running: on a returned error
\* `continue` (lines 97-100), on a throw the catch of the loop, otherwise
\* startAgentWorkflow (line 103)
AfterMarkRunning(sw, o) ==
    CASE o = "ok"    -> EnterStep(sw, 0)
      [] o = "error" -> NextRun([sw EXCEPT !.dirty = TRUE])
      [] o = "throw" -> [sw EXCEPT !.pc = "catchRun", !.dirty = TRUE]

\* update the run to running (lines 86-100), then enter startAgentWorkflow
MarkRunning(s) ==
    /\ sweep[s].pc = "markRunning"
    /\ \E o \in Outcomes :
         /\ faults' = Fault(o)
         /\ test_runs' =
              IF o = "ok"
              THEN UpdateRow(test_runs, testRun(s),
                      [test_runs[testRun(s)] EXCEPT
                          !.status = "running", !.started_at = TRUE,
                          !.total_agents = TotalAgents,
                          !.completed_agents = 0])
              ELSE test_runs
         /\ sweep' = [sweep EXCEPT ![s] = AfterMarkRunning(@, o)]
         /\ hist' = UpdateRow(hist, testRun(s),
              [ phase     |-> CASE o = "ok"    -> "driving"
                                [] o = "error" -> "skipped"
                                [] o = "throw" -> "caught",
                matched   |-> MatchedSteps(sweep[s].agents),
                attempted |-> {},
                runFault  |-> o # "ok" ])
    /\ UNCHANGED << entrypoints, exec, agents, test_results >>

\* the catch of the run loop: mark the run failed (lines 112-130)
CatchRun(s) ==
    /\ sweep[s].pc = "catchRun"
    /\ \E o \in Outcomes :
         /\ faults' = Fault(o)
         /\ test_runs' =
              IF o = "ok"
              THEN UpdateRow(test_runs, testRun(s),
                      [test_runs[testRun(s)] EXCEPT
                          !.status = "failed", !.completed_at = TRUE])
              ELSE test_runs
         /\ sweep' = [sweep EXCEPT ![s] =
              IF o = "throw" THEN Respond500(@)
              ELSE NextRun(Push(@, testRun(s), "failed"))]
         /\ hist' = UpdateRow(hist, testRun(s),
                         [hist[testRun(s)] EXCEPT !.runFault = @ \/ o # "ok"])
    /\ UNCHANGED << entrypoints, exec, agents, test_results >>

(* ------------------- startAgentWorkflow: one step ---------------------- *)
\* the agent of the step the driver is at
agent(s) == find(sweep[s].agents, workflowSequence[sweep[s].i + 1])

\* the insert is applied: the call did not fail, and the run and the agent
\* the new row references exist (test_run_id and agent_id are foreign keys);
\* a violated foreign key is returned as resultError
Inserted(s, o) ==
    /\ o = "ok"
    /\ testRun(s) \in DOMAIN test_runs
    /\ agent(s) \in DOMAIN agents

\* insert the running test result (lines 193-209)
InsertResult(s) ==
    /\ sweep[s].pc = "insertResult"
    /\ \E o \in Outcomes :
         /\ faults' = Fault(o)
         /\ test_results' =
              IF Inserted(s, o)
              THEN Append(test_results,
                     [ test_run_id |-> testRun(s),
                       agent_id    |-> agent(s),
                       agent_type  |-> workflowSequence[sweep[s].i + 1],
                       status      |-> "running",
                       logs        |-> "none" ])
              ELSE test_results
         /\ sweep' = [sweep EXCEPT ![s] =
              CASE Inserted(s, o) ->
                       [@ EXCEPT !.testResult = Len(test_results) + 1,
                                 !.pc = "updateResult"]
                [] o = "throw" -> [@ EXCEPT !.pc = "catchStep"]
                [] OTHER       -> EnterStep(@, @.i + 1)]
         /\ hist' = UpdateRow(hist, testRun(s),
                         [hist[testRun(s)] EXCEPT !.attempted = @ \cup {sweep[s].i}])
    /\ UNCHANGED << entrypoints, exec, agents, test_runs >>

\* execute the step, write its outcome to the test result and merge its data
\* into workflowData.results (lines 211-227); of the outcome the sweep keeps
\* the success flag and the key under which the data is merged
UpdateResult(s) ==
    /\ sweep[s].pc = "updateResult"
    /\ \E implOk \in BOOLEAN, o \in Outcomes :
         LET agentResult ==
                 executeAgentStep(workflowSequence[sweep[s].i + 1], NoContext,
                     [cloned |-> implOk, apiKey |-> implOk, n |-> 0])
         IN  /\ faults' = Fault(o)
             /\ test_results' =
                  IF o = "ok"
                  THEN UpdateRow(test_results, sweep[s].testResult,
                          [test_results[sweep[s].testResult] EXCEPT !.status = IF agentResult.success
                                                 THEN "completed" ELSE "failed",
                                      !.logs = IF agentResult.success
                                               THEN "executed" ELSE "failed"])
                  ELSE test_results
             /\ sweep' = [sweep EXCEPT ![s] =
                  IF o = "throw" THEN [@ EXCEPT !.pc = "catchStep"]
                  ELSE [@ EXCEPT !.workflowData =
                                    @ \cup {workflowSequence[sweep[s].i + 1]},
                                 !.pc = "updateProgress"]]
    /\ UNCHANGED << entrypoints, exec, agents, test_runs, hist >>

\* write the run's progress (lines 229-236)
UpdateProgress(s) ==
    /\ sweep[s].pc = "updateProgress"
    /\ \E o \in Outcomes :
         /\ faults' = Fault(o)
         /\ test_runs' =
              IF o = "ok"
              THEN UpdateRow(test_runs, testRun(s),
                      [test_runs[testRun(s)] EXCEPT !.completed_agents = Progress(sweep[s].i)])
              ELSE test_runs
         /\ sweep' = [sweep EXCEPT ![s] =
              IF o = "throw" THEN [@ EXCEPT !.pc = "catchStep"]
              ELSE EnterStep(@, @.i + 1)]
    /\ UNCHANGED << entrypoints, exec, agents, test_results, hist >>

\* the catch of the step: mark the results of (run, agent) failed
\* (lines 240-254); a throw of this update leaves startAgentWorkflow
CatchStep(s) ==
    /\ sweep[s].pc = "catchStep"
    /\ \E o \in Outcomes :
         /\ faults' = Fault(o)
         /\ test_results' =
              IF o = "ok"
              THEN [n \in DOMAIN test_results |->
                      IF /\ test_results[n].test_run_id = testRun(s)
                         /\ test_results[n].agent_id = agent(s)
                      THEN [test_results[n] EXCEPT !.status = "failed",
                                                   !.logs = "execution failed"]
                      ELSE test_results[n]]
              ELSE test_results
         /\ sweep' = [sweep EXCEPT ![s] =
              IF o = "throw" THEN [@ EXCEPT !.pc = "catchRun"]
              ELSE EnterStep(@, @.i + 1)]
         /\ hist' = UpdateRow(hist, testRun(s),
                         [hist[testRun(s)] EXCEPT !.phase = IF o = "throw" THEN "caught" ELSE @])
    /\ UNCHANGED << entrypoints, exec, agents, test_runs >>

\* after the loop: mark the run completed (lines 257-265); back in the
\* handler the run is reported as started (lines 105-110)
MarkCompleted(s) ==
    /\ sweep[s].pc = "markCompleted"
    /\ \E o \in Outcomes :
         /\ faults' = Fault(o)
         /\ test_runs' =
              IF o = "ok"
              THEN UpdateRow(test_runs, testRun(s),
                      [test_runs[testRun(s)] EXCEPT !.status = "completed", !.completed_at = TRUE])
              ELSE test_runs
         /\ sweep' = [sweep EXCEPT ![s] =
              IF o = "throw" THEN [@ EXCEPT !.pc = "catchRun"]
              ELSE NextRun(Push(@, testRun(s), "started"))]
         /\ hist' = UpdateRow(hist, testRun(s),
              [hist[testRun(s)] EXCEPT !.phase = IF o = "throw" THEN "caught" ELSE "finished",
                        !.runFault = @ \/ o # "ok"])
    /\ UNCHANGED << entrypoints, exec, agents, test_results >>

(* --------------------------- specification ----------------------------- *)
Sweep(s) ==
    \/ FetchQueuedRuns(s)
    \/ FetchRegisteredAgents(s)
    \/ FetchUnregisteredAgents(s)
    \/ MarkRunning(s)
    \/ InsertResult(s)
    \/ UpdateResult(s)
    \/ UpdateProgress(s)
    \/ CatchStep(s)
    \/ MarkCompleted(s)
    \/ CatchRun(s)

Next ==
    \/ CreateRun
    \/ \E s \in SweepIds : Sweep(s)

Spec == Init /\ [][Next]_vars

SpecFullRoster == InitFullRoster /\ [][Next]_vars

(* ------------- startAgentWorkflow: the data of the steps --------------- *)
\* table agents with one active, unregistered agent for each type of the set
RosterOf(types) ==
    LET ids == Ascending({ n \in 1..Len(workflowSequence) :
                             workflowSequence[n] \in types })
    IN  [n \in 1..Len(ids) |-> Agent(workflowSequence[ids[n]], "active", 0)]

\* the store holds some roster and no run; one call of startAgentWorkflow,
\* all of whose store calls succeed, is followed
InitExecutor ==
    /\ agents \in { RosterOf(types) : types \in SUBSET StepKeys }
    /\ test_runs = << >>
    /\ test_results = << >>
    /\ sweep = [s \in SweepIds |-> IdleSweep]
    /\ faults = 0
    /\ hist = << >>
    /\ InitEntrypoints
    /\ exec = [IdleExec EXCEPT !.pc = "start"]

\* the for loop of startAgentWorkflow arrives at index j
EnterExecStep(ex, j) ==
    LET i == SkipUnmatched(ex.agents, j)
    IN  [ex EXCEPT !.i = i,
                   !.pc = IF i < Len(workflowSequence) THEN "step" ELSE "done"]

\* startAgentWorkflow is called with the roster of the sweep (lines 156-176)
StartWorkflow ==
    /\ exec.pc = "start"
    /\ exec' = EnterExecStep([exec EXCEPT !.agents = SelectActiveAgents], 0)
    /\ UNCHANGED << entrypoints, agents, test_runs, test_results, sweep, faults,
                    hist >>

\* one pass through the loop body for a step with an agent (lines 187-238):
\* execute the step, write the status to its test result, merge the data
\* into the context
ExecuteStep ==
    /\ exec.pc = "step"
    /\ \E in \in Inputs :
         LET agentType   == workflowSequence[exec.i + 1]
             agentResult == executeAgentStep(agentType, exec.workflowData, in)
         IN  exec' = EnterExecStep(
                 [exec EXCEPT
                    !.written[agentType] =
                        IF agentResult.success THEN "completed" ELSE "failed",
                    !.workflowData.results[agentType] = agentResult.data,
                    !.payloads[agentType] =
                        Implementation(agentType, exec.workflowData, in)],
                 exec.i + 1)
    /\ UNCHANGED << entrypoints, agents, test_runs, test_results, sweep, faults,
                    hist >>

NextExecutor == StartWorkflow \/ ExecuteStep

SpecExecutor == InitExecutor /\ [][NextExecutor]_vars

(* ----------------------- aggregateResults alone ------------------------ *)
\* a context that holds, for the three steps the aggregation reads, either
\* nothing (count -1) or the payload of the step with the given count
DirectContext(failed, vulns, high) ==
    [results |->
       [k \in StepKeys |->
          CASE k = "unitTestAgent" /\ failed >= 0 ->
                 [status |-> "completed", tests_run |-> failed + 1,
                  tests_passed |-> 1, tests_failed |-> failed,
                  coverage_percentage |-> 50]
            [] k = "securityAgent" /\ vulns >= 0 ->
                 [status |-> "completed", vulnerabilities_found |-> vulns,
                  security_score |-> 100 - vulns]
            [] k = "mistralBugReasoningAgent" /\ high >= 0 ->
                 [status |-> "completed", bugs_analyzed |-> high,
                  severity_high |-> high, severity_medium |-> 0,
                  severity_low |-> 0]
            [] OTHER -> EmptyObj]]

InitAggregate ==
    /\ agents = << >>
    /\ test_runs = << >>
    /\ test_results = << >>
    /\ sweep = [s \in SweepIds |-> IdleSweep]
    /\ faults = 0
    /\ hist = << >>
    /\ InitEntrypoints
    /\ \E failed, vulns, high \in -1..MaxCount :
         exec = [IdleExec EXCEPT
                   !.pc = "call",
                   !.workflowData = DirectContext(failed, vulns, high)]

\* result = await aggregateResults(workflowData)
CallAggregate ==
    /\ exec.pc = "call"
    /\ exec' = [exec EXCEPT !.pc = "returned",
                            !.out = aggregateResults(exec.workflowData)]
    /\ UNCHANGED << entrypoints, agents, test_runs, test_results, sweep, faults,
                    hist >>

NextAggregate == CallAggregate

SpecAggregate == InitAggregate /\ [][NextAggregate]_vars

(* ----------------------- agent-workflow-trigger ------------------------ *)
\* a condition that never finds the test_run_id missing
NeverFalsy(test_run_id) == FALSE

\* !test_run_id
Falsy(test_run_id) == test_run_id = 0

\* the catch of the trigger: status 500, body {error: error.message}
TriggerError(message) == [status |-> 500, body |-> [error |-> message]]

\* the response of the trigger when the orchestrator answered OK
TriggerSuccess(orchestratorResult) ==
    [ status |-> 200,
      body   |-> [ success |-> TRUE,
                   message |-> "Workflow triggered successfully",
                   orchestrator_result |-> orchestratorResult ] ]

\* the JSON body of the orchestrator's OK response
OrchestratorResult(sw) == [success |-> TRUE, results |-> sw.results]

\* the store holds a cloner and an aggregator and no run; the operator
\* creates runs, then the trigger is called once
InitTrigger ==
    /\ agents = ClonerAggregatorRoster
    /\ InitStore

\* handleCreateTestRun before the trigger is called
CreateRunBeforeTrigger ==
    /\ trigger.pc = "idle"
    /\ CreateRun

\* lines 16-36: read test_run_id, throw if it is missing, else fetch the
\* orchestrator
TriggerRequest ==
    /\ trigger.pc = "idle"
    /\ \E test_run_id \in 0..MaxRuns :
         trigger' =
           LET t == [trigger EXCEPT !.test_run_id = test_run_id,
                                    !.runsBefore = test_runs,
                                    !.resultsBefore = test_results]
           IN  IF Falsy(test_run_id)
               THEN [t EXCEPT !.pc = "done",
                              !.response =
                                  TriggerError("test_run_id is required")]
               ELSE [t EXCEPT !.pc = "invoked"]
    /\ UNCHANGED << agents, test_runs, test_results, sweep, faults, hist, exec,
                    repositories, agent_registrations, clear, registration,
                    deletion >>

\* the orchestrator serves the request of the trigger
TriggerOrchestrator ==
    /\ trigger.pc = "invoked"
    /\ \E s \in SweepIds :
         /\ sweep[s].pc # "returned"
         /\ Sweep(s)

\* line 29: the fetch rejects before the orchestrator has started
TriggerFetchRejects ==
    /\ trigger.pc = "invoked"
    /\ \A s \in SweepIds : sweep[s].pc = "idle"
    /\ faults < MaxFaults
    /\ faults' = faults + 1
    /\ trigger' = [trigger EXCEPT !.pc = "done",
                                  !.response = TriggerError("fetch failed")]
    /\ UNCHANGED << agents, test_runs, test_results, sweep, hist, exec,
                    repositories, agent_registrations, clear, registration,
                    deletion >>

\* lines 38-57: the orchestrator has answered
TriggerRespond ==
    /\ trigger.pc = "invoked"
    /\ \E s \in SweepIds :
         /\ sweep[s].pc = "returned"
         /\ trigger' = [trigger EXCEPT
              !.pc = "done",
              !.response =
                  IF sweep[s].response = "ok"
                  THEN TriggerSuccess(OrchestratorResult(sweep[s]))
                  ELSE TriggerError("Orchestrator failed")]
    /\ UNCHANGED << agents, test_runs, test_results, sweep, faults, hist, exec,
                    repositories, agent_registrations, clear, registration,
                    deletion >>

NextTrigger ==
    \/ CreateRunBeforeTrigger
    \/ TriggerRequest
    \/ TriggerOrchestrator
    \/ TriggerFetchRejects
    \/ TriggerRespond

SpecTrigger == InitTrigger /\ [][NextTrigger]_vars

(* -------------------- clear-test-results, Agents page ------------------ *)
\* the nil UUID of .neq('id', '00000000-0000-0000-0000-000000000000'); the
\* ids the store generates are the positions 1, 2, ...
NilUuid == 0

\* .delete().eq('id', id): what is left of the table
DeleteEq(table, id) == [n \in DOMAIN table \ {id} |-> table[n]]

\* a delete whose filter matches no row
DeleteNoRow(table, id) == table

\* .delete().neq('id', id): what is left of the table
DeleteNeq(table, id) == IF id \in DOMAIN table THEN << table[id] >> ELSE << >>

\* a delete of runs that leaves their test results behind
KeepResults(results, runs) == results

\* ON DELETE CASCADE of test_results.test_run_id: what is left of
\* test_results when only the runs of table runs remain
CascadeRuns(results, runs) ==
    SelectSeq(results, LAMBDA row : row.test_run_id \in DOMAIN runs)

\* ON DELETE CASCADE of agent_registrations.agent_id
CascadeAgent(registrations, id) ==
    SelectSeq(registrations, LAMBDA row : row.agent_id # id)

\* test_results.agent_id REFERENCES agents(id), without ON DELETE action
Referenced(id) == \E n \in DOMAIN test_results : test_results[n].agent_id = id

\* a run as an earlier sweep over the cloner and the aggregator left it
PriorRun(status) ==
    [NewRun EXCEPT !.status = status,
                   !.started_at = TRUE,
                   !.completed_at = TRUE,
                   !.completed_agents = IF status = "completed"
                                        THEN Progress(6) ELSE 0]

\* the step results an earlier sweep left for the completed runs
PriorResults(runs) ==
    LET done == Ascending({ r \in DOMAIN runs : runs[r].status = "completed" })
    IN  [n \in 1..(2 * Len(done)) |->
           [ test_run_id |-> done[(n + 1) \div 2],
             agent_id    |-> IF n % 2 = 1 THEN 1 ELSE 2,
             agent_type  |-> IF n % 2 = 1 THEN "repoClonerAgent"
                             ELSE "aggregatorAgent",
             status      |-> "completed",
             logs        |-> "executed" ]]

RECURSIVE SeqsUpTo(_, _)
\* the sequences of at most n elements of S
SeqsUpTo(S, n) ==
    IF n = 0 THEN { << >> }
    ELSE LET shorter == SeqsUpTo(S, n - 1)
         IN  shorter \cup { Append(q, x) : q \in shorter, x \in S }

\* the store as earlier sweeps and registrations left it
InitMaintenance ==
    /\ agents = ClonerAggregatorRoster
    /\ repositories \in { << Repository >>, << Repository, Repository >> }
    /\ test_runs \in SeqsUpTo({ NewRun, PriorRun("completed"),
                                PriorRun("failed") }, MaxRuns)
    /\ test_results = PriorResults(test_runs)
    /\ agent_registrations \in
           { << >>, << [agent_id |-> 2, registration_status |-> "registered"] >> }
    /\ hist = [r \in DOMAIN test_runs |-> NoHist]
    /\ sweep = [s \in SweepIds |-> IdleSweep]
    /\ faults = 0
    /\ exec = IdleExec
    /\ trigger = IdleTrigger
    /\ clear = IdleClear
    /\ registration = IdleRegistration
    /\ deletion = IdleDeletion

\* the catch of clear-test-results
ClearError == [status |-> 500, body |-> [error |-> "Failed to clear test results"]]

ClearSuccess ==
    [ status |-> 200,
      body   |-> [ success |-> TRUE,
                   message |-> "All test results and runs have been cleared" ] ]

\* a handler that goes on to the second delete whatever the first returned
IgnoreError(cl, o) == [cl EXCEPT !.pc = "deleteRuns"]

\* if (resultsError) throw resultsError: the catch responds; else the
\* handler goes on to the second delete
ThrowIfError(cl, o) ==
    IF o = "ok" THEN [cl EXCEPT !.pc = "deleteRuns"]
    ELSE [cl EXCEPT !.pc = "done", !.response = ClearError]

\* lines 93-101: delete all test results
ClearResults ==
    /\ clear.pc = "idle"
    /\ \E o \in Outcomes :
         /\ faults' = Fault(o)
         /\ test_results' = IF o = "ok" THEN DeleteNeq(test_results, NilUuid)
                            ELSE test_results
         /\ clear' = ThrowIfError(clear, o)
    /\ UNCHANGED << agents, test_runs, sweep, hist, exec, repositories,
                    agent_registrations, trigger, registration, deletion >>

\* lines 104-136: delete all test runs and respond
ClearRuns ==
    /\ clear.pc = "deleteRuns"
    /\ \E o \in Outcomes :
         /\ faults' = Fault(o)
         /\ test_runs' = IF o = "ok" THEN DeleteNeq(test_runs, NilUuid)
                         ELSE test_runs
         /\ hist' = IF o = "ok" THEN DeleteNeq(hist, NilUuid) ELSE hist
         /\ test_results' = CascadeRuns(test_results, test_runs')
         /\ clear' = [clear EXCEPT
              !.pc = "done",
              !.response = IF o = "ok" THEN ClearSuccess ELSE ClearError]
    /\ UNCHANGED << agents, sweep, exec, repositories, agent_registrations,
                    trigger, registration, deletion >>

\* handleDeleteAgent: DELETE FROM agents WHERE id = $1 through the client of
\* the page.  Under row level security the tables have no DELETE policy, so
\* for role anon no row qualifies and the statement succeeds without
\* deleting; for a role that bypasses row level security the statement is
\* rejected while a test result references the agent
DeleteAgent ==
    /\ deletion.pc = "idle"
    /\ \E id \in DOMAIN agents, role \in {"anon", "service_role"},
          o \in Outcomes :
         LET rejected == role = "service_role" /\ Referenced(id)
             deleted  == o = "ok" /\ role = "service_role" /\ ~Referenced(id)
         IN  /\ faults' = Fault(o)
             /\ agents' = IF deleted THEN DeleteEq(agents, id) ELSE agents
             /\ agent_registrations' =
                  IF deleted THEN CascadeAgent(agent_registrations, id)
                  ELSE agent_registrations
             /\ deletion' =
                  [deletion EXCEPT
                    !.pc    = "done",
                    !.id    = id,
                    !.toast = IF o # "ok" \/ rejected
                              THEN "Failed to delete agent"
                              ELSE "Agent deleted successfully",
                    !.hadResults = Referenced(id),
                    !.hadRegistrations =
                        \E n \in DOMAIN agent_registrations :
                            agent_registrations[n].agent_id = id]
    /\ UNCHANGED << test_runs, test_results, sweep, hist, exec, repositories,
                    trigger, clear, registration >>

NextMaintenance ==
    \/ CreateRun
    \/ ClearResults
    \/ ClearRuns
    \/ DeleteAgent

SpecMaintenance == InitMaintenance /\ [][NextMaintenance]_vars

(* ---------------------- coral-agent-registration ----------------------- *)
\* the invocations of the handler that are followed
Calls == {1, 2}

\* what the coordination service puts into coral_agent_id of its response;
\* 0: the response has neither coral_agent_id nor id
CoralResults == {0, 1, 5}

\* `coral_${agent.id.slice(0, 8)}`
DerivedId(id) == 100 + id

\* CHECK (registration_status IN ('pending', 'registered', 'failed'))
AcceptedRegistrationStatus == {"pending", "registered", "failed"}

\* coral_agent_id TEXT UNIQUE
UniqueViolation(id, coralAgentId) ==
    \E b \in DOMAIN agents \ {id} : agents[b].coral_agent_id = coralAgentId

\* .from('agents').select('*').is('coral_agent_id', null)
SelectPendingAgents ==
    Ascending({ a \in DOMAIN agents : agents[a].coral_agent_id = 0 })

\* the rows of agent_registrations that reference agent a
RecordsOf(a) ==
    { n \in DOMAIN agent_registrations : agent_registrations[n].agent_id = a }

\* the agents the result list reports with status registered
RegisteredIn(results) ==
    { results[n].agent_id : n \in { m \in DOMAIN results :
                                      results[m].status = "registered" } }

\* the for loop over agents moves on (or the handler responds)
NextAgent(rg) ==
    IF rg.k < Len(rg.agents)
    THEN [rg EXCEPT !.k = @ + 1, !.pc = "register", !.coralAgentId = 0,
                    !.before = Cardinality(RecordsOf(rg.agents[rg.k + 1]))]
    ELSE [rg EXCEPT !.pc = "returned", !.coralAgentId = 0,
                    !.response =
                        [ status |-> 200,
                          body   |-> [ success |-> TRUE,
                                       results |-> rg.registrationResults ] ]]

\* registrationResults.push({... status: 'failed', error})
PushFailed(rg) ==
    [rg EXCEPT !.registrationResults =
        Append(@, [ agent_id |-> rg.agents[rg.k], status |-> "failed",
                    coral_agent_id |-> 0 ])]

\* registrationResults.push({... coral_agent_id, status: 'registered'})
PushRegistered(rg) ==
    [rg EXCEPT !.registrationResults =
        Append(@, [ agent_id |-> rg.agents[rg.k], status |-> "registered",
                    coral_agent_id |-> rg.coralAgentId ])]

InitRegistration ==
    /\ agents \in AgentTables
    /\ InitStore

\* lines 1071-1083: select the agents without coral_agent_id
FetchPendingAgents ==
    /\ registration.pc \in {"idle", "returned"}
    /\ registration.call + 1 \in Calls
    /\ \E o \in Outcomes :
         /\ faults' = Fault(o)
         /\ registration' =
              LET new == [IdleRegistration EXCEPT
                            !.call = registration.call + 1,
                            !.reported =
                                registration.reported \cup
                                RegisteredIn(registration.registrationResults)]
              IN  IF o = "ok"
                  THEN NextAgent([new EXCEPT !.agents = SelectPendingAgents])
                  ELSE [new EXCEPT !.pc = "returned",
                                   !.response =
                                       [ status |-> 500,
                                         body |-> [error |-> "fetchError"] ]]
    /\ UNCHANGED << agents, test_runs, test_results, sweep, hist, exec,
                    repositories, agent_registrations, trigger, clear,
                    deletion >>

\* lines 1100-1115: send the agent to the coordination service
RegisterWithCoral ==
    /\ registration.pc = "register"
    /\ \/ \* the fetch rejects: the catch of the loop reports the agent
          registration' =
              NextAgent(PushFailed([registration EXCEPT
                  !.contacted = @ \cup {registration.agents[registration.k]}]))
       \/ \* the response is not OK: continue
          registration' =
              NextAgent([registration EXCEPT
                  !.contacted = @ \cup {registration.agents[registration.k]}])
       \/ \E coralResult \in CoralResults :
            registration' = [registration EXCEPT
                !.contacted = @ \cup {registration.agents[registration.k]},
                !.coralAgentId =
                    IF coralResult # 0 THEN coralResult
                    ELSE DerivedId(registration.agents[registration.k]),
                !.pc = "update"]
    /\ UNCHANGED << agents, test_runs, test_results, sweep, faults, hist, exec,
                    repositories, agent_registrations, trigger, clear,
                    deletion >>

\* an agent update that also puts every run back into the queue
UpdateAgentRequeue ==
    /\ registration.pc = "update"
    /\ registration' = [registration EXCEPT !.pc = "insert"]
    /\ test_runs' = [r \in DOMAIN test_runs |->
                       [test_runs[r] EXCEPT !.status = "queued"]]
    /\ UNCHANGED << agents, test_results, sweep, faults, hist, exec,
                    repositories, agent_registrations, trigger, clear,
                    deletion >>

\* lines 1120-1131: write coral_agent_id and status active to the agent; a
\* returned error is only logged
UpdateAgent ==
    /\ registration.pc = "update"
    /\ \E o \in Outcomes :
         LET id == registration.agents[registration.k]
             applied == /\ o = "ok"
                        /\ ~UniqueViolation(id, registration.coralAgentId)
         IN  /\ faults' = Fault(o)
             /\ agents' =
                  IF applied
                  THEN UpdateRow(agents, id,
                          [agents[id] EXCEPT
                             !.coral_agent_id = registration.coralAgentId,
                             !.status = "active"])
                  ELSE agents
             /\ registration' =
                  IF o = "throw" THEN NextAgent(PushFailed(registration))
                  ELSE [registration EXCEPT !.pc = "insert"]
    /\ UNCHANGED << test_runs, test_results, sweep, hist, exec, repositories,
                    agent_registrations, trigger, clear, deletion >>

\* lines 1134-1154: insert the registration record, whose returned error is
\* only logged, and report the agent as registered
InsertRegistration ==
    /\ registration.pc = "insert"
    /\ \E o \in Outcomes :
         LET row == [ agent_id |-> registration.agents[registration.k],
                      registration_status |-> "completed" ]
             applied == /\ o = "ok"
                        /\ row.agent_id \in DOMAIN agents
                        /\ row.registration_status \in AcceptedRegistrationStatus
         IN  /\ faults' = Fault(o)
             /\ agent_registrations' =
                  IF applied THEN Append(agent_registrations, row)
                  ELSE agent_registrations
             /\ registration' =
                  IF o = "throw" THEN NextAgent(PushFailed(registration))
                  ELSE NextAgent(PushRegistered(registration))
    /\ UNCHANGED << agents, test_runs, test_results, sweep, hist, exec,
                    repositories, trigger, clear, deletion >>

NextRegistration ==
    \/ FetchPendingAgents
    \/ RegisterWithCoral
    \/ UpdateAgent
    \/ InsertRegistration

SpecRegistration == InitRegistration /\ [][NextRegistration]_vars

(* ------------------------- cancelled runs ------------------------------ *)
\* the store holds a cloner and an aggregator; runs are created, cancelled
\* from outside and swept
InitCancel ==
    /\ agents = ClonerAggregatorRoster
    /\ InitStore

\* an update of test_runs from outside the core (the table is open to
\* updates) sets status cancelled on a run that is queued or running
CancelRun ==
    /\ \E r \in DOMAIN test_runs :
         /\ test_runs[r].status \in {"queued", "running"}
         /\ test_runs' = [test_runs EXCEPT ![r].status = "cancelled"]
    /\ UNCHANGED << entrypoints, exec, agents, test_results, sweep, faults,
                    hist >>

NextCancel ==
    \/ CreateRun
    \/ CancelRun
    \/ \E s \in SweepIds : Sweep(s)

SpecCancel == InitCancel /\ [][NextCancel]_vars

(* ------------------------------ progress ------------------------------- *)
\* every awaited call of a sweep returns or throws: a sweep that can take a
\* step eventually takes one
SpecFair == Init /\ [][Next]_vars /\ WF_vars(\E s \in SweepIds : Sweep(s))

(* -------------------------- concurrent sweeps -------------------------- *)
\* two invocations of the orchestrator that overlap
ConcurrentSweepIds == {1, 2}

\* the store holds a cloner, an aggregator and one queued run; two
\* invocations are at rest
InitConcurrent ==
    /\ agents = ClonerAggregatorRoster
    /\ test_runs = << NewRun >>
    /\ test_results = << >>
    /\ sweep = [s \in ConcurrentSweepIds |-> IdleSweep]
    /\ faults = 0
    /\ hist = << NoHist >>
    /\ exec = IdleExec
    /\ InitEntrypoints

\* each of the two invocations runs once
SweepOnce(s) ==
    /\ sweep[s].pc # "returned"
    /\ Sweep(s)

NextConcurrent == \E s \in ConcurrentSweepIds : SweepOnce(s)

SpecConcurrent == InitConcurrent /\ [][NextConcurrent]_vars

(* ----------------------- the store as a whole -------------------------- *)
\* ON DELETE CASCADE of test_runs.repository_id: what is left of a table of
\* rows per run (test_runs, hist) when repository id is deleted
CascadeRepository(table, id) ==
    [r \in { n \in DOMAIN table : test_runs[n].repository_id # id } |-> table[r]]

\* handleDeleteRepository: DELETE FROM repositories WHERE id = $1 through
\* the client of the page.  For role anon no row qualifies (the table has
\* no DELETE policy); for a role that bypasses row level security the row is
\* deleted, and with it the runs of the repository and their test results
DeleteRepository ==
    /\ deletion.repository.pc = "idle"
    /\ \E id \in DOMAIN repositories, role \in {"anon", "service_role"},
          o \in Outcomes :
         LET deleted == o = "ok" /\ role = "service_role"
         IN  /\ faults' = Fault(o)
             /\ repositories' = IF deleted THEN DeleteEq(repositories, id)
                                ELSE repositories
             /\ test_runs' = IF deleted THEN CascadeRepository(test_runs, id)
                             ELSE test_runs
             /\ hist' = IF deleted THEN CascadeRepository(hist, id) ELSE hist
             /\ test_results' = CascadeRuns(test_results, test_runs')
             /\ deletion' = [deletion EXCEPT !.repository =
                  [ pc    |-> "done",
                    id    |-> id,
                    toast |-> IF o = "ok"
                              THEN "Repository deleted successfully"
                              ELSE "Failed to delete repository" ]]
    /\ UNCHANGED << agents, sweep, exec, agent_registrations, trigger, clear,
                    registration >>

\* the store after an earlier sweep and an earlier registration: two
\* repositories, a registered cloner and an aggregator still to register, a
\* completed run with its results and a queued run, both of the first
\* repository; one more store call may fail
InitIntegrity ==
    /\ agents = << Agent("repoClonerAgent", "active", 1),
                   Agent("aggregatorAgent", "active", 0) >>
    /\ repositories = << Repository, Repository >>
    /\ test_runs = << PriorRun("completed"), NewRun >>
    /\ test_results = PriorResults(test_runs)
    /\ agent_registrations =
           << [agent_id |-> 1, registration_status |-> "registered"] >>
    /\ hist = [r \in DOMAIN test_runs |-> NoHist]
    /\ sweep = [s \in SweepIds |-> IdleSweep]
    /\ faults = MaxFaults - 1
    /\ exec = IdleExec
    /\ trigger = IdleTrigger
    /\ clear = IdleClear
    /\ registration = IdleRegistration
    /\ deletion = IdleDeletion

\* one call of the registration handler
RegisterOnce ==
    /\ registration.pc # "returned"
    /\ NextRegistration

\* one sweep, one registration, one clear-data call and one delete from each
\* page, interleaved at their store calls
NextIntegrity ==
    \/ \E s \in SweepIds : SweepOnce(s)
    \/ RegisterOnce
    \/ ClearResults
    \/ ClearRuns
    \/ DeleteAgent
    \/ DeleteRepository

SpecIntegrity == InitIntegrity /\ [][NextIntegrity]_vars

TypeOK ==
    /\ faults \in 0..MaxFaults
    /\ Len(test_runs) <= MaxRuns
    /\ \A r \in DOMAIN test_runs :
         test_runs[r].status \in
             {"queued", "running", "completed", "failed", "cancelled"}
    /\ \A n \in DOMAIN test_results :
         test_results[n].status \in {"running", "completed", "failed"}

(* ------------------------------ claims --------------------------------- *)
\* the results of table test_results that belong to run r
ResultsOf(r) == { n \in DOMAIN test_results : test_results[n].test_run_id = r }

\* C1: while a run that a sweep has marked running is being processed its
\* completed_agents never decreases, and for every run a sweep has picked up
\* 0 <= completed_agents <= total_agents = 9 holds after every step
C1_ProgressMonotoneBounded ==
    [][\A r \in DOMAIN test_runs \cap DOMAIN test_runs' :
         /\ test_runs[r].status = "running"
              => test_runs'[r].completed_agents >= test_runs[r].completed_agents
         /\ hist'[r].phase # "none"
              => /\ 0 <= test_runs'[r].completed_agents
                 /\ test_runs'[r].completed_agents <= test_runs'[r].total_agents
                 /\ test_runs'[r].total_agents = 9]_vars

\* a run still running whose last step has been counted although store
\* calls failed on the way
C1_Witness ==
    \E r \in DOMAIN test_runs :
        /\ test_runs[r].status = "running"
        /\ test_runs[r].completed_agents = 9
        /\ faults > 0

\* C2: when a sweep has returned its list of results, every run it found
\* queued is queued (and then a run-level update of it failed), completed
\* or failed; none is left in status running
C2_NoRunLeftRunning ==
    \A s \in SweepIds :
        sweep[s].pc = "returned" /\ sweep[s].response = "ok"
            => \A r \in Range(sweep[s].queuedRuns) :
                 /\ test_runs[r].status \in {"queued", "completed", "failed"}
                 /\ test_runs[r].status = "queued" => hist[r].runFault

\* C3: a run driven with an agent for each of the 9 step types has, once the
\* driver has finished, exactly 9 test results, each completed or failed
C3_NineFinalResults ==
    \A r \in DOMAIN test_runs :
        /\ hist[r].phase = "finished"
        /\ hist[r].matched = 0..(Len(workflowSequence) - 1)
        => /\ Cardinality(ResultsOf(r)) = 9
           /\ \A n \in ResultsOf(r) :
                test_results[n].status \in {"completed", "failed"}

\* the test results of run r for the step at 0-based index i
ResultsOfStep(r, i) ==
    { n \in ResultsOf(r) : test_results[n].agent_type = workflowSequence[i + 1] }

\* C4: once the driver has finished a run, every step with a matching agent
\* in the roster has exactly one test result and every other step has none
C4_OneResultPerMatchedStep ==
    \A r \in DOMAIN test_runs :
        hist[r].phase = "finished"
        => \A i \in 0..(Len(workflowSequence) - 1) :
             Cardinality(ResultsOfStep(r, i)) =
                 IF i \in hist[r].matched THEN 1 ELSE 0

\* C5: when a run that has entered its step sequence has left status
\* running, every step with a matching agent has been attempted
C5_SequenceRunsToCompletion ==
    \A r \in DOMAIN test_runs :
        /\ hist[r].attempted # {}
        /\ test_runs[r].status \in {"completed", "failed"}
        => hist[r].attempted = hist[r].matched

\* C6: as long as no run-level store call fails, a run whose driver has
\* finished is completed, and no run is failed, whatever happened in its steps
C6_StepErrorsNeverFailRun ==
    \A r \in DOMAIN test_runs :
        ~hist[r].runFault
        => /\ hist[r].phase = "finished" => test_runs[r].status = "completed"
           /\ test_runs[r].status # "failed"

\* C7: in every step no run that has left queued returns to queued, and no
\* completed or failed run moves back to running
C7_StatusMonotone ==
    [][\A r \in DOMAIN test_runs \cap DOMAIN test_runs' :
         /\ test_runs[r].status # "queued" => test_runs'[r].status # "queued"
         /\ test_runs[r].status \in {"completed", "failed"}
              => test_runs'[r].status # "running"]_vars

\* a later sweep has returned and left a failed and a completed run alone
C7_Witness ==
    /\ \E s \in SweepIds : sweep[s].prev # "none" /\ sweep[s].pc = "returned"
    /\ \E r \in DOMAIN test_runs : test_runs[r].status = "failed"
    /\ \E r \in DOMAIN test_runs : test_runs[r].status = "completed"

\* the rows of a test_results table that belong to run r
RowsOf(table, r) ==
    { << n, table[n] >> : n \in { m \in DOMAIN table : table[m].test_run_id = r } }

\* C8: a test result is only created for a run that is no longer queued;
\* the queue a sweep reads holds only queued runs; and a sweep changes no
\* run, and no test result of a run, that is not in the queue it read
C8_PickedUpOnlyWhileQueued ==
    [][/\ \A n \in DOMAIN test_results' \ DOMAIN test_results :
            test_runs[test_results'[n].test_run_id].status # "queued"
       /\ \A s \in SweepIds :
            sweep'[s].queuedRuns # sweep[s].queuedRuns
              => \A r \in Range(sweep'[s].queuedRuns) :
                     test_runs[r].status = "queued"
       /\ \A r \in DOMAIN test_runs :
            \/ test_runs'[r] # test_runs[r]
            \/ RowsOf(test_results', r) # RowsOf(test_results, r)
            => \E s \in SweepIds : r \in Range(sweep[s].queuedRuns)]_vars

\* a sweep creates test results for a running run while an older run,
\* completed before this sweep read the queue, stays as it is
C8_Witness ==
    \E s \in SweepIds, r, q \in DOMAIN test_runs :
        /\ test_runs[r].status = "completed"
        /\ r \notin Range(sweep[s].queuedRuns)
        /\ q \in Range(sweep[s].queuedRuns)
        /\ test_runs[q].status = "running"
        /\ ResultsOf(q) # {}

\* a sweep is at work and no run was created since the previous sweep read
\* the queue
LaterSweep(s) ==
    /\ sweep[s].pc \notin {"idle", "returned"}
    /\ sweep[s].prev # "none"
    /\ sweep[s].prevLen = Len(test_runs)

\* C9 as claimed: a sweep invoked after another sweep has returned, with no
\* new runs, changes no run and no test result (a step that creates no run
\* while such a sweep is at work leaves both tables as they are)
C9_LaterSweepChangesNothing ==
    [][\A s \in SweepIds :
         LaterSweep(s) /\ Len(test_runs') = Len(test_runs)
           => test_runs' = test_runs /\ test_results' = test_results]_vars

\* C9 as amended: a sweep invoked after a sweep that returned a success
\* response and had no failed transition to running, with no new runs,
\* changes no run and no test result; and no sweep changes a failed run, a
\* test result of a failed run, or a failed test result
C9_CleanSweepIdempotent ==
    [][/\ \A s \in SweepIds :
            /\ LaterSweep(s) /\ sweep[s].prev = "clean"
            /\ Len(test_runs') = Len(test_runs)
            => test_runs' = test_runs /\ test_results' = test_results
       /\ \A r \in DOMAIN test_runs :
            test_runs[r].status = "failed"
              => /\ test_runs'[r] = test_runs[r]
                 /\ RowsOf(test_results', r) = RowsOf(test_results, r)
       /\ \A n \in DOMAIN test_results :
            test_results[n].status = "failed"
              => test_results'[n] = test_results[n]]_vars

\* a second sweep has run to its end after a clean one, with a failed run
\* and a failed test result in the store
C9_Witness ==
    /\ \E s \in SweepIds :
         /\ sweep[s].pc = "returned"
         /\ sweep[s].prev = "clean"
         /\ sweep[s].prevLen = Len(test_runs)
    /\ \E r \in DOMAIN test_runs : test_runs[r].status = "failed"
    /\ \E n \in DOMAIN test_results : test_results[n].status = "failed"

\* C10: a run whose update to running returned an error is still queued,
\* has no test result and its counters are as before; the step in which the
\* update fails changes nothing in the store and takes the handler to the
\* next queued run (or, after the last one, to the response)
C10_FailedTransitionSkipsRun ==
    /\ [](\A r \in DOMAIN test_runs :
            hist[r].phase = "skipped"
              => /\ test_runs[r].status = "queued"
                 /\ ResultsOf(r) = {}
                 /\ test_runs[r].completed_agents = 0
                 /\ test_runs[r].total_agents = 9
                 /\ ~test_runs[r].started_at)
    /\ [][\A s \in SweepIds :
            /\ sweep[s].pc = "markRunning"
            /\ sweep'[s] # sweep[s]
            /\ hist'[testRun(s)].phase = "skipped"
            => /\ test_runs' = test_runs
               /\ test_results' = test_results
               /\ IF sweep[s].k < Len(sweep[s].queuedRuns)
                  THEN /\ sweep'[s].pc = "markRunning"
                       /\ sweep'[s].k = sweep[s].k + 1
                  ELSE /\ sweep'[s].pc = "returned"
                       /\ sweep'[s].response = "ok"]_vars

\* the update to running failed for one run and the same sweep then drove
\* the next run of its queue to completed
C10_Witness ==
    \E s \in SweepIds, r, q \in DOMAIN test_runs :
        /\ hist[r].phase = "skipped"
        /\ test_runs[q].status = "completed"
        /\ \E m, n \in DOMAIN sweep[s].queuedRuns :
             m < n /\ sweep[s].queuedRuns[m] = r /\ sweep[s].queuedRuns[n] = q

\* the handler is in its discovery queries
InDiscovery(s) ==
    sweep[s].pc \in {"idle", "returned", "fetchRegistered", "fetchUnregistered"}

\* C11: a step in which a discovery query fails ends the sweep with the
\* top-level error response and an empty result list, and changes no run
\* and no test result
C11_DiscoveryFailureFatal ==
    [][\A s \in SweepIds :
         InDiscovery(s) /\ faults' > faults
           => /\ sweep'[s].pc = "returned"
              /\ sweep'[s].response = "error"
              /\ sweep'[s].results = << >>
              /\ test_runs' = test_runs
              /\ test_results' = test_results]_vars

\* C12: once the catch of the run loop has handled a run whose driver
\* raised, the run is failed with a completion timestamp, the result list
\* has a failed entry for it, the sweep has not ended with the error
\* response, and when the sweep has returned every run of its queue has
\* been processed
C12_DriverErrorMarksRunFailed ==
    \A s \in SweepIds : \A r \in Range(sweep[s].queuedRuns) :
        /\ hist[r].phase = "caught"
        /\ ~(sweep[s].pc = "catchRun" /\ testRun(s) = r)
        => /\ test_runs[r].status = "failed"
           /\ test_runs[r].completed_at
           /\ sweep[s].response # "error"
           /\ [test_run_id |-> r, status |-> "failed"] \in Range(sweep[s].results)
           /\ sweep[s].pc = "returned"
                => \A q \in Range(sweep[s].queuedRuns) : hist[q].phase # "none"

\* the discovery queries of the sweep succeeded and the sweep has returned
ReturnedAfterDiscovery(s) ==
    /\ sweep[s].pc = "returned"
    /\ ~(sweep[s].response = "error" /\ sweep[s].k = 0)

\* C13: a sweep whose discovery queries succeeded returns the success
\* response, and its result list has exactly one entry for each run of the
\* queue, in queue order
C13_OneEntryPerQueuedRun ==
    \A s \in SweepIds :
        ReturnedAfterDiscovery(s)
        => /\ sweep[s].response = "ok"
           /\ Len(sweep[s].results) = Len(sweep[s].queuedRuns)
           /\ \A n \in DOMAIN sweep[s].results :
                sweep[s].results[n].test_run_id = sweep[s].queuedRuns[n]

\* the roster of the specification: the registered active agents, or all
\* active agents if there is none
ResolvedRoster ==
    IF Len(SelectRegisteredAgents) > 0 THEN SelectRegisteredAgents
    ELSE SelectActiveAgents

\* C14: while a sweep processes its runs its roster is the registered
\* active agents, or all active agents if no active agent is registered;
\* every agent of the roster is active
C14_RosterResolution ==
    \A s \in SweepIds :
        ReturnedAfterDiscovery(s) \/ ~InDiscovery(s)
        => /\ sweep[s].agents = ResolvedRoster
           /\ \A n \in DOMAIN sweep[s].agents :
                agents[sweep[s].agents[n].id].status = "active"

\* C15: with only a cloner and an aggregator in table agents, one queued run
\* and no failing store call, when the first sweep has returned the run is
\* completed and has exactly two test results, one of agent type
\* repoClonerAgent and one of agent type aggregatorAgent
C15_ClonerAggregatorScenario ==
    \A s \in SweepIds :
        /\ agents = ClonerAggregatorRoster
        /\ faults = 0
        /\ sweep[s].pc = "returned"
        /\ sweep[s].prev = "none"
        /\ Len(sweep[s].queuedRuns) = 1
        => LET r == sweep[s].queuedRuns[1]
           IN  /\ test_runs[r].status = "completed"
               /\ Cardinality(ResultsOf(r)) = 2
               /\ { test_results[n].agent_type : n \in ResultsOf(r) } =
                      {"repoClonerAgent", "aggregatorAgent"}

\* the scenario of C15 has been played to its end
C15_Witness ==
    \E s \in SweepIds :
        /\ agents = ClonerAggregatorRoster
        /\ faults = 0
        /\ sweep[s].pc = "returned"
        /\ sweep[s].prev = "none"
        /\ Len(sweep[s].queuedRuns) = 1
        /\ Len(test_results) = 2

\* the largest element of a non-empty finite set of integers
MaxOf(S) == CHOOSE x \in S : \A y \in S : y <= x

\* C16: a progress update that is applied writes i+1 for the 0-based index i
\* of the step; completed_agents changes in no other step of the driver (a
\* skipped step leaves it as it is); and after a run without failing store
\* calls it is 1 + the index of the last matched step, or 0 if none matched
C16_PositionBasedProgress ==
    /\ [][\A s \in SweepIds :
            /\ sweep[s].pc = "updateProgress"
            /\ sweep'[s] # sweep[s]
            /\ faults' = faults
            => test_runs'[testRun(s)].completed_agents = sweep[s].i + 1]_vars
    /\ [][\A r \in DOMAIN test_runs :
            test_runs'[r].completed_agents # test_runs[r].completed_agents
            => \E s \in SweepIds :
                 /\ sweep[s].pc \in {"markRunning", "updateProgress"}
                 /\ testRun(s) = r
                 /\ sweep[s].pc = "updateProgress"
                      => /\ sweep[s].i \in hist[r].matched
                         /\ test_runs'[r].completed_agents = sweep[s].i + 1]_vars
    /\ [](\A r \in DOMAIN test_runs :
            hist[r].phase = "finished" /\ faults = 0
            => test_runs[r].completed_agents =
                 IF hist[r].matched = {} THEN 0
                 ELSE 1 + MaxOf(hist[r].matched))

\* an error-free run has finished with a counter larger than the number of
\* its test results
C16_Witness ==
    \E r \in DOMAIN test_runs :
        /\ hist[r].phase = "finished"
        /\ faults = 0
        /\ hist[r].matched # {}
        /\ test_runs[r].completed_agents > Cardinality(ResultsOf(r))

\* table agents has no agent of the given type
MissingFromRoster(type) ==
    \A a \in DOMAIN agents : agents[a].type # type

\* C17: when there is no unitTestAgent in the roster, no test result of that
\* type is written, and the aggregatorAgent step, once executed, is written
\* completed with a payload of status completed whose unit-test statistics
\* (total_tests, tests_passed, tests_failed, coverage) are all 0
C17_MissingUnitTestsReadAsZero ==
    MissingFromRoster("unitTestAgent")
    => /\ exec.written["unitTestAgent"] = "none"
       /\ exec.written["aggregatorAgent"] # "none"
            => /\ exec.written["aggregatorAgent"] = "completed"
               /\ exec.payloads["aggregatorAgent"].status = "completed"
               /\ exec.payloads["aggregatorAgent"].test_summary =
                    [ total_tests  |-> 0, tests_passed |-> 0,
                      tests_failed |-> 0, coverage     |-> 0 ]

\* a workflow without unitTestAgent whose clone succeeded has run to its
\* end, the aggregation included
C17_Witness ==
    /\ MissingFromRoster("unitTestAgent")
    /\ exec.pc = "done"
    /\ exec.payloads["repoClonerAgent"] # EmptyObj
    /\ exec.payloads["repoClonerAgent"].status = "success"
    /\ exec.written["aggregatorAgent"] = "completed"

\* C18: after a step has been executed the context holds, under the key of
\* the step, the payload its implementation returned; so after a successful
\* clone, results.repoClonerAgent.clone_path is the path of the clone
C18_ContextHoldsPayload ==
    \A k \in StepKeys :
        exec.written[k] # "none"
        => /\ exec.workflowData.results[k] = exec.payloads[k]
           /\ k = "repoClonerAgent" /\ exec.payloads[k].status = "success"
                => ClonePath(exec.workflowData) = exec.payloads[k].clone_path

\* C19: the test result of an executed step is written with status failed
\* if the implementation of the step failed, and with status completed only
\* if it succeeded
C19_FailedStepWrittenFailed ==
    \A k \in StepKeys :
        exec.written[k] # "none"
        => (exec.written[k] = "failed" <=> exec.payloads[k].status = "failed")

\* the counts of a context as the aggregation reads them
Count(key, field) == OrZero(Num(exec.workflowData.results[key], field))

\* C20: the score aggregateResults returns is an integer in 0..100; it is
\* 100 exactly if there is no failed test, no vulnerability and no
\* high-severity bug, and it is never lower than 100 minus 5 per failed
\* test, 10 per vulnerability and 15 per high-severity bug, floored at 0
C20_ScoreWithinBounds ==
    exec.pc = "returned"
    => LET failed == Count("unitTestAgent", "tests_failed")
           vulns  == Count("securityAgent", "vulnerabilities_found")
           high   == Count("mistralBugReasoningAgent", "severity_high")
           score  == exec.out.overall_score
       IN  /\ score \in 0..100
           /\ score = 100 <=> (failed = 0 /\ vulns = 0 /\ high = 0)
           /\ score >= Max(0, 100 - failed * 5 - vulns * 10 - high * 15)

\* the aggregation has returned for a context in which every count is so
\* large that the uncapped penalties exceed 100
C20_Witness ==
    /\ exec.pc = "returned"
    /\ Count("unitTestAgent", "tests_failed") = MaxCount
    /\ Count("securityAgent", "vulnerabilities_found") = MaxCount
    /\ Count("mistralBugReasoningAgent", "severity_high") = MaxCount
    /\ exec.out.overall_score = 25

\* 1-based position of an agent type in the sequence
IndexOf(type) == CHOOSE n \in DOMAIN workflowSequence : workflowSequence[n] = type

\* the test results of run r that are in status running
RunningResultsOf(r) == { n \in ResultsOf(r) : test_results[n].status = "running" }

\* C21: at most one test result of a run is in status running at any time,
\* and a test result is created only when every test result the run already
\* has belongs to an earlier step of the sequence and has left status running
C21_StepsSequentialInOrder ==
    /\ [](\A r \in DOMAIN test_runs : Cardinality(RunningResultsOf(r)) <= 1)
    /\ [][\A n \in DOMAIN test_results' \ DOMAIN test_results :
            \A m \in ResultsOf(test_results'[n].test_run_id) :
                /\ IndexOf(test_results[m].agent_type)
                       < IndexOf(test_results'[n].agent_type)
                /\ test_results[m].status # "running"]_vars

\* the runs of the queue of sweep s that are in status running
RunningRunsOf(s) ==
    { r \in Range(sweep[s].queuedRuns) : test_runs[r].status = "running" }

\* C22: the queue of a sweep is in creation order; at most one run of the
\* queue is in status running at any time; and when a run is marked running
\* every run before it in the queue is completed, failed, or was skipped
C22_RunsOneAtATime ==
    /\ [](\A s \in SweepIds :
            /\ \A m, n \in DOMAIN sweep[s].queuedRuns :
                 m < n => sweep[s].queuedRuns[m] < sweep[s].queuedRuns[n]
            /\ Cardinality(RunningRunsOf(s)) <= 1)
    /\ [][\A s \in SweepIds : \A n \in DOMAIN sweep[s].queuedRuns :
            /\ test_runs[sweep[s].queuedRuns[n]].status # "running"
            /\ Len(test_runs') = Len(test_runs)
            /\ test_runs'[sweep[s].queuedRuns[n]].status = "running"
            => \A m \in 1..(n - 1) :
                 \/ test_runs[sweep[s].queuedRuns[m]].status
                        \in {"completed", "failed"}
                 \/ hist[sweep[s].queuedRuns[m]].phase = "skipped"]_vars

\* the runs that were queued when the trigger was called
QueuedAtTrigger ==
    { r \in DOMAIN trigger.runsBefore : trigger.runsBefore[r].status = "queued" }

C24_TriggerErrorHandling ==
    trigger.pc = "done" =>
        /\ trigger.test_run_id = 0 =>
              /\ trigger.response.status = 500
              /\ DOMAIN trigger.response.body = {"error"}
              /\ \A s \in SweepIds : sweep[s].pc = "idle"
              /\ test_runs = trigger.runsBefore
              /\ test_results = trigger.resultsBefore
        /\ (\E s \in SweepIds : sweep[s].pc = "returned" /\ sweep[s].response = "error") =>
              /\ trigger.response.status = 500
              /\ DOMAIN trigger.response.body = {"error"}
        /\ trigger.response.status # 500 =>
              /\ trigger.response.status = 200
              /\ \E s \in SweepIds :
                   /\ sweep[s].pc = "returned"
                   /\ sweep[s].response = "ok"
                   /\ trigger.response.body =
                        [ success |-> TRUE,
                          message |-> "Workflow triggered successfully",
                          orchestrator_result |->
                              [success |-> TRUE, results |-> sweep[s].results] ]

\* a request without test_run_id was answered while a run was queued
C24_Witness ==
    /\ trigger.pc = "done"
    /\ trigger.test_run_id = 0
    /\ trigger.response = [status |-> 500, body |-> [error |-> "test_run_id is required"]]
    /\ \E r \in DOMAIN test_runs : test_runs[r].status = "queued"

\* C25: whenever clear-test-results answers with success, tables
\* test_results and test_runs are empty at that moment, whatever they held
\* before, and no step of the entrypoint changes tables agents and
\* repositories
C25_ClearDataEmptiesRunsAndResults ==
    [][clear' # clear
         => /\ agents' = agents
            /\ repositories' = repositories
            /\ clear'.pc = "done" /\ clear'.response.status = 200
                  => Len(test_results') = 0 /\ Len(test_runs') = 0]_vars

\* the clear succeeded and left two repositories and both agents
C25_Witness ==
    /\ clear.pc = "done"
    /\ clear.response.status = 200
    /\ Len(test_runs) = 0
    /\ Len(test_results) = 0
    /\ Len(repositories) = 2
    /\ agents = ClonerAggregatorRoster
    /\ Len(agent_registrations) = 1

\* C30: after handleDeleteAgent the agent and every test result and
\* registration record that references it are gone, and the delete was
\* reported as a success, also when the agent had test results
C30_DeleteAgentCascades ==
    deletion.pc = "done" /\ faults = 0 =>
        /\ deletion.id \notin DOMAIN agents
        /\ \A n \in DOMAIN test_results : test_results[n].agent_id # deletion.id
        /\ \A n \in DOMAIN agent_registrations :
               agent_registrations[n].agent_id # deletion.id
        /\ deletion.toast = "Agent deleted successfully"

\* C26: an agent that an earlier call of the registration handler reported
\* as registered is not sent to the coordination service by a later call
\* (and so is neither changed nor given a registration record by it)
C26_RegistrationIdempotent ==
    registration.contacted \cap registration.reported = {}

\* C27: when the registration handler returns its result list, the list has
\* exactly one entry, registered or failed, for every agent that had no
\* coral_agent_id when the handler selected the pending agents
C27_OneEntryPerPendingAgent ==
    registration.pc = "returned" /\ registration.response.status = 200 =>
        \A n \in DOMAIN registration.agents :
            Cardinality({ m \in DOMAIN registration.registrationResults :
                            /\ registration.registrationResults[m].agent_id =
                                   registration.agents[n]
                            /\ registration.registrationResults[m].status \in
                                   {"registered", "failed"} }) = 1

\* C28: when the handler has attempted an agent and reports it as
\* registered, the number of registration records of that agent has grown by
\* exactly one, and every stored record has a status the store accepts
C28_OneRecordPerAttempt ==
    [][/\ registration.pc = "insert"
       /\ registration'.pc # "insert"
       /\ Len(registration'.registrationResults) >
              Len(registration.registrationResults)
       /\ registration'.registrationResults[
              Len(registration'.registrationResults)].status = "registered"
       => LET a == registration.agents[registration.k]
              records == { n \in DOMAIN agent_registrations' :
                             agent_registrations'[n].agent_id = a }
          IN  /\ Cardinality(records) = registration.before + 1
              /\ \A n \in records :
                     agent_registrations'[n].registration_status \in
                         {"pending", "registered", "failed"}]_vars

\* C29: when the registration handler returns, every agent it reports as
\* registered has in the store the coral_agent_id of the report, which is not
\* null, and status active
C29_RegisteredAgentsHaveId ==
    registration.pc = "returned" =>
        \A m \in DOMAIN registration.registrationResults :
            LET entry == registration.registrationResults[m]
            IN  entry.status = "registered" =>
                    /\ entry.coral_agent_id # 0
                    /\ agents[entry.agent_id].coral_agent_id = entry.coral_agent_id
                    /\ agents[entry.agent_id].status = "active"

\* C31: a run whose status is cancelled keeps that status: no step of a
\* sweep changes it to running, completed or failed
C31_CancelledRunIgnored ==
    [][\A r \in DOMAIN test_runs :
          test_runs[r].status = "cancelled" /\ r \in DOMAIN test_runs'
              => test_runs'[r].status = "cancelled"]_vars

\* C32: under SpecFair every run that is running eventually is completed or
\* failed, and every sweep that has started eventually returns a response
C32_RunsAndSweepTerminate ==
    /\ \A r \in 1..MaxRuns :
         [](r \in DOMAIN test_runs /\ test_runs[r].status = "running"
               => <>(/\ r \in DOMAIN test_runs
                     /\ test_runs[r].status \in {"completed", "failed"}))
    /\ \A s \in SweepIds :
         [](sweep[s].pc \notin {"idle", "returned"}
               => <>(sweep[s].pc = "returned"))

\* C33: whenever the driver leaves a step whose insert it issued, the step
\* has a test result, which is failed if the insert did not create one; and
\* whenever the catch of a step writes after the insert had created a test
\* result, it sets that same test result to failed with the error in its
\* logs, adds no row, and the context does not hold the step's payload
C33_FailedStepRecorded ==
    [][\A s \in SweepIds :
        /\ /\ sweep[s].pc \in {"insertResult", "updateProgress", "catchStep"}
           /\ sweep'[s].pc \in {"insertResult", "markCompleted"}
           /\ sweep'[s].i > sweep[s].i
           => \E n \in DOMAIN test_results' :
                /\ test_results'[n].test_run_id = testRun(s)
                /\ test_results'[n].agent_type = workflowSequence[sweep[s].i + 1]
                /\ sweep[s].pc = "insertResult"
                       => test_results'[n].status = "failed"
        /\ /\ sweep[s].pc = "catchStep"
           /\ sweep[s].testResult # 0
           /\ test_results' # test_results
           => /\ Len(test_results') = Len(test_results)
              /\ test_results'[sweep[s].testResult].status = "failed"
              /\ test_results'[sweep[s].testResult].logs = "execution failed"
              /\ workflowSequence[sweep[s].i + 1] \notin sweep'[s].workflowData]_vars

\* C35: the status of a test result only moves from running to completed
\* or failed: a test result written as completed keeps that status in every
\* later step of the driver, and one written as failed never returns to
\* running
C35_StepResultStatusMonotone ==
    [][\A n \in DOMAIN test_results :
          n \in DOMAIN test_results' =>
              /\ test_results[n].status = "completed"
                     => test_results'[n].status = "completed"
              /\ test_results[n].status = "failed"
                     => test_results'[n].status # "running"]_vars

\* C34: with two sweeps interleaved at their store calls, no run has more
\* than one test result for the same step type, and no step resets
\* completed_agents of a run to 0 once the run has test results
C34_RunDrivenByOneSweep ==
    /\ [](\A r \in DOMAIN test_runs : \A i \in 0..(Len(workflowSequence) - 1) :
             Cardinality(ResultsOfStep(r, i)) <= 1)
    /\ [][\A r \in DOMAIN test_runs :
             /\ ResultsOf(r) # {}
             /\ test_runs[r].completed_agents > 0
             => test_runs'[r].completed_agents > 0]_vars

\* C38: for counts that are missing or not negative, the score that
\* aggregateResults returns is 100 - min(30, 5 * tests_failed)
\* - min(25, 10 * vulnerabilities_found) - min(20, 15 * severity_high), a
\* term being applied only when its count is positive; it is at least 25,
\* so the floor at 0 does not change it
C38_ScoreFormula ==
    exec.pc = "returned"
    => LET failed == Count("unitTestAgent", "tests_failed")
           vulns  == Count("securityAgent", "vulnerabilities_found")
           high   == Count("mistralBugReasoningAgent", "severity_high")
           raw    == 100 - (IF failed > 0 THEN Min(30, 5 * failed) ELSE 0)
                         - (IF vulns > 0 THEN Min(25, 10 * vulns) ELSE 0)
                         - (IF high > 0 THEN Min(20, 15 * high) ELSE 0)
       IN  /\ exec.out.overall_score = raw
           /\ raw >= 25

\* the aggregation has returned for one failed test, one vulnerability and
\* one high-severity bug, none of whose penalties reaches its cap
C38_Witness ==
    /\ exec.pc = "returned"
    /\ Count("unitTestAgent", "tests_failed") = 1
    /\ Count("securityAgent", "vulnerabilities_found") = 1
    /\ Count("mistralBugReasoningAgent", "severity_high") = 1
    /\ exec.out.overall_score = 70

\* C39: in every step of clear-test-results: if the delete of the test
\* results fails, the handler answers 500 and no run is deleted; runs are
\* deleted only by the second delete, after the first has emptied
\* test_results; and a step that answers 500 leaves agents and repositories
\* as they are
C39_ClearDataErrorPaths ==
    [][clear' # clear =>
         /\ clear.pc = "idle" /\ faults' > faults
               => /\ clear'.pc = "done"
                  /\ clear'.response.status = 500
                  /\ DOMAIN clear'.response.body = {"error"}
                  /\ test_runs' = test_runs
                  /\ test_results' = test_results
         /\ test_runs' # test_runs
               => clear.pc = "deleteRuns" /\ Len(test_results) = 0
         /\ clear'.response.status = 500
               => agents' = agents /\ repositories' = repositories]_vars

\* the first delete failed: the handler has answered 500 and the runs and
\* their results are still there
C39_Witness ==
    /\ clear.pc = "done"
    /\ clear.response.status = 500
    /\ Len(test_results) > 0
    /\ Len(test_runs) = MaxRuns

\* C36: in every state reachable under a sweep, a registration, a clear-data
\* call and deletes of an agent and of a repository, every row of
\* test_results references a run and an agent that exist and every run
\* references a repository that exists; so a delete of a run or of a
\* repository leaves no run and no test result that depended on it
C36_ReferentialIntegrity ==
    /\ \A n \in DOMAIN test_results :
         /\ test_results[n].test_run_id \in DOMAIN test_runs
         /\ test_results[n].agent_id \in DOMAIN agents
    /\ \A r \in DOMAIN test_runs :
         test_runs[r].repository_id \in DOMAIN repositories

\* the repository of the runs was deleted while the sweep was working on
\* its run, after the sweep had stored a result for it: runs and results
\* are gone
C36_Witness ==
    /\ deletion.repository.pc = "done"
    /\ 1 \notin DOMAIN repositories
    /\ sweep[1].pc \notin {"idle", "returned"}
    /\ sweep[1].testResult # 0
    /\ test_runs = << >>
    /\ test_results = << >>

\* C37: a step of the sweep leaves agents, repositories and
\* agent_registrations as they are, and a step of registerPendingAgents
\* leaves test_runs and test_results as they are
C37_SweepAndRegistrationFrames ==
    [][ /\ sweep' # sweep =>
             /\ agents' = agents
             /\ repositories' = repositories
             /\ agent_registrations' = agent_registrations
        /\ registration' # registration =>
             /\ test_runs' = test_runs
             /\ test_results' = test_results ]_vars

\* the sweep has completed the queued run and the registration has written
\* a coral id to the aggregator, with both repositories still there
C37_Witness ==
    /\ sweep[1].pc = "returned"
    /\ registration.pc = "returned"
    /\ 2 \in DOMAIN test_runs
    /\ test_runs[2].status = "completed"
    /\ 2 \in DOMAIN agents
    /\ agents[2].coral_agent_id # 0
    /\ DOMAIN repositories = {1, 2}

====
